---- MODULE Spec2Model ----
(***************************************************************************)
(* The Serie A match predictor: the serving core (app/predictor.py), the   *)
(* request layer that owns it (app/main.py) and the training script's      *)
(* encoder (serieA.py), as a state machine.                                *)
(*                                                                         *)
(* Floats are modelled as exact rationals <<n, d>> in lowest terms with    *)
(* d > 0; a missing value (NaN) is <<0, 0>>.  Dates are day numbers.       *)
(* Strings are ordered by their position in Names / Formations, which are  *)
(* listed in ascending lexicographic order.                                *)
(***************************************************************************)
EXTENDS Integers, Sequences, FiniteSets, TLC

\* ------------------------------------------------------------------ bounds
\* The history source holds at most MaxRows rows.
MaxRows == 4
\* Explicit limits passed to recent_results / head_to_head range over 0..MaxLimit.
MaxLimit == 2

\* ------------------------------------------------------- program constants
Span == 5
ClipLo == 0
ClipHi == 15
DefaultLimit == 5

\* --------------------------------------------------------------- rationals
RECURSIVE Gcd(_, _)
Gcd(a, b) == IF b = 0 THEN a ELSE Gcd(b, a % b)

Abs(n) == IF n < 0 THEN -n ELSE n

NaN == <<0, 0>>
IsNaN(x) == x[2] = 0

\* n/d in lowest terms, d > 0
Rat(n, d) ==
    LET g == Gcd(Abs(n), Abs(d))
        s == IF d < 0 THEN -1 ELSE 1
    IN  <<(s * n) \div g, (s * d) \div g>>

FromInt(n) == <<n, 1>>
RAdd(x, y) == Rat(x[1] * y[2] + y[1] * x[2], x[2] * y[2])
RSub(x, y) == Rat(x[1] * y[2] - y[1] * x[2], x[2] * y[2])
RMul(x, y) == Rat(x[1] * y[1], x[2] * y[2])
RDiv(x, y) == Rat(x[1] * y[2], x[2] * y[1])
RLt(x, y) == x[1] * y[2] < y[1] * x[2]
RLe(x, y) == x[1] * y[2] <= y[1] * x[2]
\* floor of a rational (\div rounds towards minus infinity)
RFloor(x) == x[1] \div x[2]

RECURSIVE RSum(_)
RSum(s) == IF s = <<>> THEN FromInt(0) ELSE RAdd(Head(s), RSum(Tail(s)))

\* pandas' mean: missing values are skipped; missing when nothing is left
DropNaN(s) == SelectSeq(s, LAMBDA x : ~IsNaN(x))
Mean(s) ==
    LET v == DropNaN(s)
    IN  IF v = <<>> THEN NaN ELSE RDiv(RSum(v), FromInt(Len(v)))

\* Series.fillna(value)
FillNa(x, value) == IF IsNaN(x) THEN value ELSE x

\* ----------------------------------------------------------------- strings
\* Club names and formation labels, each list in ascending lexicographic order.
Names == <<"Atalanta", "Bologna", "Cagliari">>
Formations == <<"3-5-2", "4-3-3">>
Venues == {"Home", "Away"}
\* The dates of the source, as written there, in ascending order.
IsoDates == <<"2021-08-21", "2021-08-28", "2021-09-11">>

Range(s) == {s[i] : i \in DOMAIN s}
Pos(s, x) == CHOOSE i \in DOMAIN s : s[i] = x

\* Python runs its statements in order: the value of `first` is computed
\* before `rest` is, and the result is that of `rest`.
InOrder(first, rest) == IF first = first THEN rest ELSE rest

\* the function f on 1..n as a tuple
RECURSIVE AsSeq(_, _)
AsSeq(f, n) == IF n = 0 THEN <<>> ELSE Append(AsSeq(f, n - 1), f[n])

\* ------------------------------------------------------ the files on disk
\* matches_seriea.csv: candidate rows, in file order (not in date order).
\* Cagliari occurs as an opponent only; rows 1 and 8 share team and date.
\* A missing formation cell is "nan".
MissingLabel == "nan"
CsvRow(team, opponent, date, gf, ga, xg, xga, formation, opp_formation) ==
    [team |-> team, opponent |-> opponent, date |-> date, gf |-> gf, ga |-> ga,
     xg |-> xg, xga |-> xga, formation |-> formation,
     opp_formation |-> opp_formation]

SourceRows ==
    << CsvRow("Atalanta", "Bologna",  IsoDates[3], 2, 0, <<3, 2>>, <<1, 2>>, "3-5-2", "4-3-3"),
       CsvRow("Bologna",  "Atalanta", IsoDates[3], 0, 2, <<1, 2>>, <<3, 2>>, "4-3-3", "3-5-2"),
       CsvRow("Atalanta", "Bologna",  IsoDates[1], 1, 1, <<1, 2>>, <<5, 4>>, "3-5-2", "4-3-3"),
       CsvRow("Bologna",  "Atalanta", IsoDates[1], 1, 1, <<5, 4>>, <<1, 2>>, "4-3-3", MissingLabel),
       CsvRow("Atalanta", "Cagliari", IsoDates[2], 1, 3, <<2, 1>>, <<5, 2>>, "4-3-3", "4-3-3"),
       CsvRow("Atalanta", "Bologna",  IsoDates[2], 3, 1, <<9, 4>>, <<3, 4>>, "3-5-2", "3-5-2"),
       CsvRow("Bologna",  "Atalanta", IsoDates[2], 1, 3, <<3, 4>>, <<9, 4>>, "3-5-2", "3-5-2"),
       CsvRow("Atalanta", "Cagliari", IsoDates[3], 0, 0, <<1, 4>>, <<1, 1>>, MissingLabel, "4-3-3") >>

\* the rows of SourceRows at the positions S, in file order, numbered 0.. as
\* read_csv numbers them (the frame's index)
RECURSIVE PickRows(_, _)
PickRows(S, n) ==
    IF S = {} THEN <<>>
    ELSE LET i == CHOOSE k \in S : \A j \in S : k <= j
         IN  <<[idx |-> n] @@ SourceRows[i]>> \o PickRows(S \ {i}, n + 1)

Histories ==
    { PickRows(S, 0) :
        S \in {T \in SUBSET (DOMAIN SourceRows) : Cardinality(T) <= MaxRows} }

\* A file is [ok, data]: ok = FALSE is a missing or unreadable file.
NoFile == [ok |-> FALSE]
File(data) == [ok |-> TRUE, data |-> data]

\* ----------------------------------------------------------------- sorting
\* sort keys: tuples of integers, compared lexicographically
RECURSIVE KeyLess(_, _)
KeyLess(k1, k2) ==
    /\ k1 # <<>>
    /\ \/ Head(k1) < Head(k2)
       \/ Head(k1) = Head(k2) /\ KeyLess(Tail(k1), Tail(k2))

SortKey(r, by) ==
    CASE by = "team_date" -> <<Pos(Names, r.team), r.date>>
      [] by = "team_opponent_date" ->
            <<Pos(Names, r.team), Pos(Names, r.opponent), r.date>>
      [] by = "date" -> <<r.date>>
      [] by = "date_desc" -> <<-r.date>>

\* r goes after every row of the sorted s whose key is not greater
RECURSIVE InsertSorted(_, _, _)
InsertSorted(s, r, by) ==
    IF s = <<>> THEN <<r>>
    ELSE IF KeyLess(SortKey(r, by), SortKey(Head(s), by))
         THEN <<r>> \o s
         ELSE <<Head(s)>> \o InsertSorted(Tail(s), r, by)

\* a stable sort: rows with equal keys keep their order
RECURSIVE StableSort(_, _)
StableSort(s, by) ==
    IF s = <<>> THEN <<>>
    ELSE InsertSorted(StableSort(SubSeq(s, 1, Len(s) - 1), by), s[Len(s)], by)

Reverse(s) == AsSeq([i \in DOMAIN s |-> s[Len(s) + 1 - i]], Len(s))

\* DataFrame.sort_values on several columns: a stable, lexicographic sort
SortValues(frame, by) == StableSort(frame, by)

\* DataFrame.sort_values on one column (kind = "quicksort", not stable): the
\* order of rows with equal keys is the library build's choice: ties = "keep"
\* leaves them in the frame's order, ties = "flip" reverses them.
SortValuesBy(frame, by, ties) ==
    IF ties = "keep" THEN StableSort(frame, by)
    ELSE StableSort(Reverse(frame), by)

\* ------------------------------------------------ the Match History Store
\* A frame is a sequence of rows (records: one field per column, plus idx).
Metrics == <<"gf", "ga", "xg", "xga">>
TEAM_FORM_COLS == <<"gm_form", "ga_form", "xg_form", "xga_form">>
MATCHUP_FORM_COLS == <<"gf_vs_opp", "ga_vs_opp", "xg_vs_opp", "xga_vs_opp">>
\* FEATURE_COLS listing the matchup columns before the team-form columns
FEATURE_COLS_MatchupFirst ==
    <<"venue", "team", "opponent", "formation", "opp formation">>
        \o MATCHUP_FORM_COLS \o TEAM_FORM_COLS

FEATURE_COLS ==
    <<"venue", "team", "opponent", "formation", "opp formation",
      "gm_form", "ga_form", "xg_form", "xga_form",
      "gf_vs_opp", "ga_vs_opp", "xg_vs_opp", "xga_vs_opp">>

\* the value of a raw metric as a float
Metric(r, col) == IF col \in {"gf", "ga"} THEN FromInt(r[col]) ELSE r[col]

Column(frame, col) == AsSeq([i \in DOMAIN frame |-> frame[i][col]], Len(frame))
SetColumn(frame, col, vals) ==
    AsSeq([i \in DOMAIN frame |-> (col :> vals[i]) @@ frame[i]], Len(frame))

GroupKey(r, by) ==
    IF by = "team" THEN <<r.team>> ELSE <<r.team, r.opponent>>

\* df.groupby(by)[col].shift(): each row gets the metric of the previous row of
\* its own group (in the frame's order), the first row of a group gets NaN.
\* The result is one series over the whole frame.
GroupShift(frame, by, col) ==
    AsSeq([i \in DOMAIN frame |->
              LET prev == {j \in 1..(i - 1) :
                              GroupKey(frame[j], by) = GroupKey(frame[i], by)}
              IN  IF prev = {} THEN NaN
                  ELSE Metric(frame[CHOOSE j \in prev : \A k \in prev : k <= j], col)],
          Len(frame))

\* Series.ewm(alpha, min_periods=1, adjust=False).mean(), ignore_na=False: the
\* library's recursion over the whole series it is given.  A missing input
\* leaves the running value as it is and ages its weight; the output is
\* missing only while no value has been seen.
EwmStart == [weighted |-> NaN, old_wt |-> FromInt(1)]
EwmStep(st, cur, alpha) ==
    IF ~IsNaN(st.weighted)
    THEN LET aged == RMul(st.old_wt, RSub(FromInt(1), alpha))
         IN  IF ~IsNaN(cur)
             THEN [weighted |->
                      RDiv(RAdd(RMul(aged, st.weighted), RMul(alpha, cur)),
                           RAdd(aged, alpha)),
                   old_wt |-> FromInt(1)]
             ELSE [weighted |-> st.weighted, old_wt |-> aged]
    ELSE IF ~IsNaN(cur)
         THEN [weighted |-> cur, old_wt |-> st.old_wt]
         ELSE st

RECURSIVE EwmState(_, _, _)
EwmState(vals, n, alpha) ==
    IF n = 0 THEN EwmStart ELSE EwmStep(EwmState(vals, n - 1, alpha), vals[n], alpha)

EwmMean(vals, alpha) ==
    AsSeq([i \in DOMAIN vals |-> EwmState(vals, i, alpha).weighted], Len(vals))

\* span=5 gives alpha = 2 / (span + 1)
TeamAlpha == Rat(2, Span + 1)
MatchupAlpha == Rat(6, 10)

EwmName(col, level) ==
    CASE level = "team" /\ col = "gf" -> "gf_ewm_team"
      [] level = "team" /\ col = "ga" -> "ga_ewm_team"
      [] level = "team" /\ col = "xg" -> "xg_ewm_team"
      [] level = "team" /\ col = "xga" -> "xga_ewm_team"
      [] level = "matchup" /\ col = "gf" -> "gf_ewm_matchup"
      [] level = "matchup" /\ col = "ga" -> "ga_ewm_matchup"
      [] level = "matchup" /\ col = "xg" -> "xg_ewm_matchup"
      [] level = "matchup" /\ col = "xga" -> "xga_ewm_matchup"

\* for col in ["gf", "ga", "xg", "xga"]: df[f"{col}_ewm_<level>"] = ...
RECURSIVE AddEwmColumns(_, _, _, _, _)
AddEwmColumns(frame, cols, level, by, alpha) ==
    IF cols = <<>> THEN frame
    ELSE LET next == SetColumn(frame, EwmName(Head(cols), level),
                         EwmMean(GroupShift(frame, by, Head(cols)), alpha))
         IN  InOrder(next, AddEwmColumns(next, Tail(cols), level, by, alpha))

ewm_cols ==
    <<"gf_ewm_team", "ga_ewm_team", "xg_ewm_team", "xga_ewm_team",
      "gf_ewm_matchup", "ga_ewm_matchup", "xg_ewm_matchup", "xga_ewm_matchup">>

\* df.groupby("team")[col].transform("mean")
TeamMean(frame, col) ==
    AsSeq([i \in DOMAIN frame |->
              Mean(Column(SelectSeq(frame, LAMBDA r : r.team = frame[i].team), col))],
          Len(frame))

\* the two tiers in the other order: the column's mean first, then the team's
FillColumnDatasetFirst(frame, col) ==
    LET colMean == Mean(Column(frame, col))
        byAll == SetColumn(frame, col,
                     [i \in DOMAIN frame |-> FillNa(frame[i][col], colMean)])
        team_mean == TeamMean(byAll, col)
    IN  SetColumn(byAll, col,
            [i \in DOMAIN frame |-> FillNa(byAll[i][col], team_mean[i])])

\* one column: the team's mean, then the column's mean over the whole frame
FillColumn(frame, col) ==
    LET team_mean == TeamMean(frame, col)
        byTeam == SetColumn(frame, col,
                      [i \in DOMAIN frame |-> FillNa(frame[i][col], team_mean[i])])
        colMean == Mean(Column(byTeam, col))
    IN  SetColumn(byTeam, col,
            [i \in DOMAIN frame |-> FillNa(byTeam[i][col], colMean)])

RECURSIVE FillColumns(_, _)
FillColumns(frame, cols) ==
    IF cols = <<>> THEN frame
    ELSE LET next == FillColumn(frame, Head(cols))
         IN  InOrder(next, FillColumns(next, Tail(cols)))

\* df[ewm_cols] = df[ewm_cols].fillna(0.0)
RECURSIVE FillZero(_, _)
FillZero(frame, cols) ==
    IF cols = <<>> THEN frame
    ELSE LET next == SetColumn(frame, Head(cols),
                         [i \in DOMAIN frame |->
                             FillNa(frame[i][Head(cols)], FromInt(0))])
         IN  InOrder(next, FillZero(next, Tail(cols)))

\* df.rename(columns={...}): the canonical names of the eight form columns
Rename(frame) ==
    AsSeq([i \in DOMAIN frame |->
        [idx |-> frame[i].idx, team |-> frame[i].team,
         opponent |-> frame[i].opponent, date |-> frame[i].date,
         gf |-> frame[i].gf, ga |-> frame[i].ga,
         xg |-> frame[i].xg, xga |-> frame[i].xga,
         formation |-> frame[i].formation,
         opp_formation |-> frame[i].opp_formation,
         gm_form |-> frame[i].gf_ewm_team, ga_form |-> frame[i].ga_ewm_team,
         xg_form |-> frame[i].xg_ewm_team, xga_form |-> frame[i].xga_ewm_team,
         gf_vs_opp |-> frame[i].gf_ewm_matchup,
         ga_vs_opp |-> frame[i].ga_ewm_matchup,
         xg_vs_opp |-> frame[i].xg_ewm_matchup,
         xga_vs_opp |-> frame[i].xga_ewm_matchup]], Len(frame))

\* pd.to_datetime / Timestamp.strftime("%Y-%m-%d"): a date is kept as its
\* rank among the dates of the source
ToDatetime(text) == Pos(IsoDates, text)
Strftime(date) == IsoDates[date]

\* df["date"] = pd.to_datetime(df["date"])
ParseDates(frame) ==
    AsSeq([i \in DOMAIN frame |-> [frame[i] EXCEPT !.date = ToDatetime(@)]],
          Len(frame))

\* the first half of _prepare_dataset: the dates parsed and the eight EWM
\* columns added, before any missing value is filled
WithFormColumns(rows) ==
    LET parsed == ParseDates(rows)
        byTeam == SortValues(parsed, "team_date")
        withTeam == AddEwmColumns(byTeam, Metrics, "team", "team", TeamAlpha)
        byMatchup == SortValues(withTeam, "team_opponent_date")
        withMatchup ==
            AddEwmColumns(byMatchup, Metrics, "matchup", "team_opponent", MatchupAlpha)
    IN  InOrder(withTeam, withMatchup)

\* the second half: the missing values filled, the columns renamed
FilledAndRenamed(withMatchup) ==
    LET sorted == SortValues(withMatchup, "team_date")
        filled == FillColumns(sorted, ewm_cols)
        zeroed == FillZero(filled, ewm_cols)
    IN  InOrder(filled, InOrder(zeroed, Rename(zeroed)))

\* PredictorService._prepare_dataset, from the rows read from the source
_prepare_dataset(rows) == FilledAndRenamed(WithFormColumns(rows))

\* the default forms without .fillna(0.0)
DefaultFormsNoFill(frame) ==
    [col \in Range(TEAM_FORM_COLS \o MATCHUP_FORM_COLS) |-> Mean(Column(frame, col))]

\* __init__: self.df[TEAM_FORM_COLS + MATCHUP_FORM_COLS].mean().fillna(0.0)
DefaultForms(frame) ==
    [col \in Range(TEAM_FORM_COLS \o MATCHUP_FORM_COLS) |->
        FillNa(Mean(Column(frame, col)), FromInt(0))]

\* ------------------------------------------------- the training script's data
\* serieA.py 43-45: the first loop, every EWM column filled with its team's mean
RECURSIVE FillTeamMeans(_, _)
FillTeamMeans(frame, cols) ==
    IF cols = <<>> THEN frame
    ELSE LET team_mean == TeamMean(frame, Head(cols))
             next == SetColumn(frame, Head(cols),
                         [i \in DOMAIN frame |->
                             FillNa(frame[i][Head(cols)], team_mean[i])])
         IN  InOrder(next, FillTeamMeans(next, Tail(cols)))

\* serieA.py 47-48: the second loop, every EWM column filled with its own mean
RECURSIVE FillDatasetMeans(_, _)
FillDatasetMeans(frame, cols) ==
    IF cols = <<>> THEN frame
    ELSE LET colMean == Mean(Column(frame, Head(cols)))
             next == SetColumn(frame, Head(cols),
                         [i \in DOMAIN frame |->
                             FillNa(frame[i][Head(cols)], colMean)])
         IN  InOrder(next, FillDatasetMeans(next, Tail(cols)))

\* the two loops in the other order: the columns' own means first
TrainingFilledDatasetFirst(frame) ==
    LET byAll == FillDatasetMeans(frame, ewm_cols)
    IN  InOrder(byAll, FillTeamMeans(byAll, ewm_cols))

\* serieA.py 43-48: the team-mean loop over all columns, then the
\* dataset-mean loop over all columns
TrainingFilled(frame) ==
    LET byTeam == FillTeamMeans(frame, ewm_cols)
    IN  InOrder(byTeam, FillDatasetMeans(byTeam, ewm_cols))

\* serieA.py 12-52: the table the models are trained on, from the rows read
\* from the source (the dropped columns play no part in it)
TrainingFrame(rows) ==
    LET parsed == ParseDates(rows)
        byTeam == SortValues(parsed, "team_date")
        withTeam == AddEwmColumns(byTeam, Metrics, "team", "team", TeamAlpha)
        byMatchup == SortValues(withTeam, "team_opponent_date")
        withMatchup ==
            AddEwmColumns(byMatchup, Metrics, "matchup", "team_opponent", MatchupAlpha)
        sorted == SortValues(withMatchup, "team_date")
        filled == TrainingFilled(sorted)
        zeroed == FillZero(filled, ewm_cols)
    IN  InOrder(withTeam, InOrder(withMatchup, InOrder(zeroed, Rename(zeroed))))

\* serieA.py 122-127: default_forms of the training script
TrainingDefaultForms(frame) ==
    [col \in Range(<<"gm_form", "ga_form", "xg_form", "xga_form">>
                       \o <<"gf_vs_opp", "ga_vs_opp", "xg_vs_opp", "xga_vs_opp">>) |->
        FillNa(Mean(Column(frame, col)), FromInt(0))]

\* an encoder fitted with handle_unknown='error', the library's default
FittedEncoderStrict(categories) ==
    [kind |-> "ColumnTransformer", categories |-> categories,
     handle_unknown |-> "error"]

\* ------------------------------------------------------------ the artifacts
\* serieA.py: ColumnTransformer([OneHotEncoder(handle_unknown='ignore') over
\* the five categorical columns, 'passthrough' over the eight numeric ones]),
\* fitted: categories[k] are the sorted values column k had in training.
FittedEncoder(categories) ==
    [kind |-> "ColumnTransformer", categories |-> categories,
     handle_unknown |-> "ignore"]

\* A fitted regressor, reduced to one split of a tree: x[feature] < threshold
\* goes left.  Its leaves are what the regressor returns.
Regressor(feature, threshold, left, right) ==
    [kind |-> "XGBRegressor", feature |-> feature, threshold |-> threshold,
     left |-> left, right |-> right]

\* the preprocessor.pkl files the model considers
EncoderSet ==
    { FittedEncoder(<< <<"Away", "Home">>, <<"Atalanta", "Bologna">>,
                       <<"Atalanta", "Bologna">>, <<"3-5-2", "4-3-3">>,
                       <<"3-5-2", "4-3-3">> >>),
      FittedEncoder(<< <<"Away", "Home">>, <<"Atalanta", "Cagliari">>,
                       <<"Bologna", "Cagliari">>, <<"3-5-2", "4-4-2">>,
                       <<"4-3-3", "4-4-2">> >>) }

\* the model_gf.pkl / model_ga.pkl files the model considers; the encoded
\* vector has ten indicator columns (venue Away, Home; two teams; two
\* opponents; two formations; two opponent formations), then the eight forms
OnVenueHome == Regressor(2, <<1, 2>>, <<-3, 10>>, <<5, 2>>)
OnGmForm == Regressor(11, <<1, 1>>, <<159, 10>>, <<7, 2>>)
OnFirstTeam == Regressor(3, <<1, 2>>, <<3, 2>>, <<6, 5>>)
OnGfVsOpp == Regressor(15, <<3, 2>>, <<1, 2>>, <<3, 4>>)
ModelSet == {OnVenueHome, OnGmForm, OnFirstTeam, OnGfVsOpp}

None == [kind |-> "None"]

\* serieA.py: the columns of X, which the encoder is fitted on
feature_cols ==
    <<"venue", "team", "opponent", "formation", "opp formation",
      "gm_form", "ga_form", "xg_form", "xga_form",
      "gf_vs_opp", "ga_vs_opp", "xg_vs_opp", "xga_vs_opp">>

\* categorical_cols, and numerical_cols = [c for c in feature_cols if c not in
\* categorical_cols]
CategoricalCols == <<"venue", "team", "opponent", "formation", "opp formation">>
NumericalCols == SelectSeq(feature_cols, LAMBDA c : c \notin Range(CategoricalCols))

\* OneHotEncoder.transform of one value: the indicator of each category, all
\* zeros for a value that is none of them
OneHot(cats, value) ==
    AsSeq([i \in DOMAIN cats |-> IF cats[i] = value THEN FromInt(1) ELSE FromInt(0)],
          Len(cats))

RECURSIVE EncodeCategorical(_, _, _)
EncodeCategorical(encoder, row, k) ==
    IF k > Len(CategoricalCols) THEN <<>>
    ELSE OneHot(encoder.categories[k], row[CategoricalCols[k]])
             \o EncodeCategorical(encoder, row, k + 1)

\* the categorical columns whose value the encoder was not fitted on
UnknownCategories(encoder, row) ==
    {k \in DOMAIN CategoricalCols :
        row[CategoricalCols[k]] \notin Range(encoder.categories[k])}

\* preprocessor.transform(feature_row): the indicators, then the numbers; an
\* unknown value is an error unless handle_unknown = 'ignore'
Transform(encoder, row) ==
    IF UnknownCategories(encoder, row) # {} /\ encoder.handle_unknown # "ignore"
    THEN [ok |-> FALSE, x |-> <<>>]
    ELSE [ok |-> TRUE,
          x |-> EncodeCategorical(encoder, row, 1)
                    \o AsSeq([i \in DOMAIN NumericalCols |-> row[NumericalCols[i]]],
                             Len(NumericalCols))]

\* model.predict(feature_enc)[0]
RegressorPredict(model, x) ==
    IF RLt(x[model.feature], model.threshold) THEN model.left ELSE model.right

\* rounding a tie upwards (floor(x + 1/2)) where np.round rounds it to even
NpRoundHalfUp(x) == RFloor(RAdd(x, Rat(1, 2)))

\* np.round: to the nearest integer, a tie to the even one
NpRound(x) ==
    LET lo == RFloor(x)
        twice == RSub(RAdd(x, x), FromInt(2 * lo))
    IN  IF RLt(twice, FromInt(1)) THEN lo
        ELSE IF RLt(FromInt(1), twice) THEN lo + 1
        ELSE IF lo % 2 = 0 THEN lo ELSE lo + 1

\* np.clip
NpClip(n, lo, hi) == IF n < lo THEN lo ELSE IF n > hi THEN hi ELSE n

\* int(np.clip(np.round(pred), 0, 15))
RoundGoals(pred) == NpClip(NpRound(pred), ClipLo, ClipHi)

\* labelling by the raw predictions
ResultLabelRaw(pred_gf, pred_ga, pred_gf_round, pred_ga_round) ==
    IF RLt(pred_ga, pred_gf) THEN "W"
    ELSE IF RLt(pred_gf, pred_ga) THEN "L"
    ELSE "D"

\* the W / L / D label of predict
ResultLabel(pred_gf, pred_ga, pred_gf_round, pred_ga_round) ==
    IF pred_gf_round > pred_ga_round THEN "W"
    ELSE IF pred_gf_round < pred_ga_round THEN "L"
    ELSE "D"

\* -------------------------------------------------------------------- state
VARIABLES
    disk,           \* the four files: csv, preprocessor, model_gf, model_ga
    ties,           \* how this build's quicksort orders equal keys
    pc,             \* where PredictorService.__init__ stands
    attrs,          \* the attributes __init__ has assigned so far
    df,             \* self.df
    preprocessor,   \* self.preprocessor
    model_gf,       \* self.model_gf
    model_ga,       \* self.model_ga
    default_forms,  \* self.default_forms
    predictor,      \* main.py's module-level name: "unbound" or "bound"
    resp,           \* the last request and what it returned
    repeat          \* whether the last predict repeated the request before it

vars == <<disk, ties, pc, attrs, df, preprocessor, model_gf, model_ga,
          default_forms, predictor, resp, repeat>>

service == <<df, preprocessor, model_gf, model_ga, default_forms>>

\* ------------------------------------------------------- the Form Resolver
\* self.df[self.df["team"] == team]
TeamRows(frame, team) == SelectSeq(frame, LAMBDA r : r.team = team)
\* self.df[(self.df["team"] == team) & (self.df["opponent"] == opponent)]
MatchupRows(frame, team, opponent) ==
    SelectSeq(frame, LAMBDA r : r.team = team /\ r.opponent = opponent)

\* {col: source[col] for col in cols}
FormDict(cols, source) == [c \in Range(cols) |-> source[c]]

\* history.iloc[-1]
Latest(history) == history[Len(history)]

\* _get_team_form reading the first row of the date-sorted history
TeamFormOfEarliest(history) ==
    IF history = <<>>
    THEN FormDict(TEAM_FORM_COLS, default_forms)
    ELSE FormDict(TEAM_FORM_COLS, history[1])

\* the team's rows by date; without any, the default forms of the four
\* team-form columns; else the four values of the last row
TeamFormOf(history) ==
    IF history = <<>>
    THEN FormDict(TEAM_FORM_COLS, default_forms)
    ELSE FormDict(TEAM_FORM_COLS, Latest(history))

_get_team_form(team) ==
    TeamFormOf(SortValuesBy(TeamRows(df, team), "date", ties))

\* the team's form under the names of the matchup columns
AsMatchupForm(team_form) ==
    [gf_vs_opp |-> team_form["gm_form"],
     ga_vs_opp |-> team_form["ga_form"],
     xg_vs_opp |-> team_form["xg_form"],
     xga_vs_opp |-> team_form["xga_form"]]

\* _get_matchup_form falling back to the default matchup columns
MatchupFormOfDefaults(history, team) ==
    IF history = <<>>
    THEN FormDict(MATCHUP_FORM_COLS, default_forms)
    ELSE FormDict(MATCHUP_FORM_COLS, Latest(history))

MatchupFormOf(history, team) ==
    IF history = <<>>
    THEN AsMatchupForm(_get_team_form(team))
    ELSE FormDict(MATCHUP_FORM_COLS, Latest(history))

_get_matchup_form(team, opponent) ==
    MatchupFormOf(SortValuesBy(MatchupRows(df, team, opponent), "date", ties), team)

\* ---------------------------------------------------- the Feature Assembler
\* pd.DataFrame([row], columns=FEATURE_COLS): the dict's columns in the order
\* of FEATURE_COLS (a column the dict lacks would be missing)
FeatureFrame(row) ==
    [columns |-> FEATURE_COLS,
     values |-> [c \in Range(FEATURE_COLS) \cap DOMAIN row |-> row[c]]]

_build_feature_row(team, opponent, venue, formation, opp_formation) ==
    FeatureFrame(("venue" :> venue) @@ ("team" :> team)
                     @@ ("opponent" :> opponent) @@ ("formation" :> formation)
                     @@ ("opp formation" :> opp_formation)
                     @@ _get_team_form(team)
                     @@ _get_matchup_form(team, opponent))

\* ---------------------------------------------------- the Inference Engine
\* the prediction fields of the returned dict; status and features are kept
\* beside them to tell how the call ended and which feature row it built
PredictionResult(feature_row, pred_gf, pred_ga, pred_gf_round, pred_ga_round) ==
    [status |-> "ok", features |-> feature_row,
     pred_goals_for |-> pred_gf, pred_goals_against |-> pred_ga,
     pred_goals_for_round |-> pred_gf_round,
     pred_goals_against_round |-> pred_ga_round,
     result |-> ResultLabel(pred_gf, pred_ga, pred_gf_round, pred_ga_round)]

\* pred_gf_round / pred_ga_round = int(np.clip(np.round(...), 0, 15))
Rounded(feature_row, pred_gf, pred_ga) ==
    PredictionResult(feature_row, pred_gf, pred_ga,
                     RoundGoals(pred_gf), RoundGoals(pred_ga))

\* pred_gf / pred_ga = float(model.predict(feature_enc)[0]); transform raises
\* for a category it does not accept
Inference(feature_row, feature_enc) ==
    IF ~feature_enc.ok
    THEN [status |-> "ValueError", features |-> feature_row]
    ELSE Rounded(feature_row,
                 RegressorPredict(model_gf, feature_enc.x),
                 RegressorPredict(model_ga, feature_enc.x))

\* feature_enc = self.preprocessor.transform(feature_row)
Encoded(feature_row) ==
    Inference(feature_row, Transform(preprocessor, feature_row.values))

\* the returned dict: the five inputs with the prediction fields
Echo(inputs, prediction) ==
    IF prediction.status = "ok" THEN inputs @@ prediction ELSE prediction

\* predict returning the two clubs in each other's field
predictSwapped(team, opponent, venue, formation, opp_formation) ==
    Echo([team |-> opponent, opponent |-> team, venue |-> venue,
          formation |-> formation, opp_formation |-> opp_formation],
         Encoded(_build_feature_row(team, opponent, venue, formation,
                                    opp_formation)))

predict(team, opponent, venue, formation, opp_formation) ==
    Echo([team |-> team, opponent |-> opponent, venue |-> venue,
          formation |-> formation, opp_formation |-> opp_formation],
         Encoded(_build_feature_row(team, opponent, venue, formation,
                                    opp_formation)))

\* ------------------------------------------------------ the Analytics Views
\* sorted(set of strings): the members of `universe` (ascending) that occur
SortedUnique(universe, values) == SelectSeq(universe, LAMBDA v : v \in values)

list_teams == SortedUnique(Names, Range(Column(df, "team")))

\* list_formations reading the team's formation column only
list_formationsOwnColumn ==
    SortedUnique(Formations, Range(Column(df, "formation")) \ {MissingLabel})

list_formations ==
    LET team_forms == Range(Column(df, "formation")) \ {MissingLabel}
        opp_forms == Range(Column(df, "opp_formation")) \ {MissingLabel}
    IN  SortedUnique(Formations, team_forms \cup opp_forms)

\* the win column counting a draw as a win (>= for >)
WithWinDrawLoose(frame) ==
    AsSeq([i \in DOMAIN frame |->
              [win |-> IF frame[i].gf >= frame[i].ga THEN 1 ELSE 0,
               draw |-> IF frame[i].gf = frame[i].ga THEN 1 ELSE 0] @@ frame[i]],
          Len(frame))

\* summary_df = self.df.copy(); summary_df["win"] = ...; summary_df["draw"] = ...
\* The two new columns go to the copy; self.df keeps its columns.
WithWinDraw(frame) ==
    AsSeq([i \in DOMAIN frame |->
              [win |-> IF frame[i].gf > frame[i].ga THEN 1 ELSE 0,
               draw |-> IF frame[i].gf = frame[i].ga THEN 1 ELSE 0] @@ frame[i]],
          Len(frame))

\* team_summary adding its win and draw columns to self.df itself (no .copy())
SummaryFramesInPlace(frame) ==
    [self_df |-> WithWinDraw(frame), summary_df |-> WithWinDraw(frame)]

SummaryFrames(frame) == [self_df |-> frame, summary_df |-> WithWinDraw(frame)]

RECURSIVE Sum(_)
Sum(s) == IF s = <<>> THEN 0 ELSE Head(s) + Sum(Tail(s))

Hundred == FromInt(100)

\* one record of groupby("team").agg(...), with the three derived columns
TeamAggregate(summary_df, team) ==
    LET rows == TeamRows(summary_df, team)
        n == Len(rows)
        total_gf == Sum(Column(rows, "gf"))
        total_ga == Sum(Column(rows, "ga"))
    IN  [team |-> team, matches |-> n,
         avg_gf |-> Rat(total_gf, n), avg_ga |-> Rat(total_ga, n),
         avg_xg |-> Mean(Column(rows, "xg")),
         total_gf |-> total_gf, total_ga |-> total_ga,
         win_rate |-> RMul(Rat(Sum(Column(rows, "win")), n), Hundred),
         draw_rate |-> RMul(Rat(Sum(Column(rows, "draw")), n), Hundred),
         goal_diff |-> total_gf - total_ga]

team_summary ==
    LET summary_df == SummaryFrames(df).summary_df
        teams == SortedUnique(Names, Range(Column(summary_df, "team")))
    IN  AsSeq([i \in DOMAIN teams |-> TeamAggregate(summary_df, teams[i])],
              Len(teams))

\* a head that counts matches, not rows: the rows of the first `limit`
\* different dates
FrameHeadByDate(frame, limit) ==
    SubSeq(frame, 1,
           Cardinality({i \in DOMAIN frame :
                           Cardinality({frame[j].date : j \in 1..i}) <= limit}))

\* DataFrame.head(limit), limit >= 0
FrameHead(frame, limit) ==
    SubSeq(frame, 1, IF limit < Len(frame) THEN limit ELSE Len(frame))

\* the label of a row from its own team's side
RowResult(gf, ga) == IF gf > ga THEN "W" ELSE IF gf < ga THEN "L" ELSE "D"

\* recent_results sorting by date ascending (ascending=False left out)
recent_resultsOldestFirst(team, limit) ==
    LET history ==
            FrameHead(SortValuesBy(TeamRows(df, team), "date", ties), limit)
    IN  AsSeq([i \in DOMAIN history |-> RowResult(history[i].gf, history[i].ga)],
              Len(history))

recent_results(team, limit) ==
    LET history ==
            FrameHead(SortValuesBy(TeamRows(df, team), "date_desc", ties), limit)
    IN  AsSeq([i \in DOMAIN history |-> RowResult(history[i].gf, history[i].ga)],
              Len(history))

\* the label head_to_head gives a row: from the row's side when the row's
\* team is the queried team, and with W and L exchanged when it is not
HeadToHeadResult(primary_team, team, gf, ga) ==
    IF primary_team = team
    THEN IF gf > ga THEN "W" ELSE IF gf < ga THEN "L" ELSE "D"
    ELSE IF gf < ga THEN "W" ELSE IF gf > ga THEN "L" ELSE "D"

\* the mask of head_to_head without its second half (rows seen from the
\* opponent's side are left out)
HeadToHeadRowsOneSided(frame, team, opponent) ==
    SelectSeq(frame, LAMBDA r : r.team = team /\ r.opponent = opponent)

HeadToHeadRows(frame, team, opponent) ==
    SelectSeq(frame,
              LAMBDA r : \/ r.team = team /\ r.opponent = opponent
                         \/ r.team = opponent /\ r.opponent = team)

head_to_head(team, opponent, limit) ==
    LET history ==
            FrameHead(SortValuesBy(HeadToHeadRows(df, team, opponent),
                                   "date_desc", ties), limit)
    IN  AsSeq([i \in DOMAIN history |->
                  [date |-> Strftime(history[i].date),
                   team |-> history[i].team,
                   opponent |-> history[i].opponent,
                   gf |-> FromInt(history[i].gf), ga |-> FromInt(history[i].ga),
                   result |-> HeadToHeadResult(history[i].team, team,
                                               history[i].gf, history[i].ga)]],
              Len(history))

\* ------------------------------------------------------------------ startup
\* pd.read_csv / joblib.load: the file's content, or the exception raised for
\* a missing or unreadable file
ReadCsv(file) ==
    IF file.ok THEN [raised |-> FALSE, value |-> file.data]
    ELSE [raised |-> TRUE, value |-> <<>>]

\* a load that swallows the failure and yields nothing
JoblibLoadSwallowed(file) ==
    IF file.ok THEN [raised |-> FALSE, value |-> file.data]
    ELSE [raised |-> FALSE, value |-> None]

JoblibLoad(file) ==
    IF file.ok THEN [raised |-> FALSE, value |-> file.data]
    ELSE [raised |-> TRUE, value |-> None]

\* The worlds the service may start in.  Every history is tried with one
\* matching set of artifacts and both tie orders; every combination of
\* artifact files, present or missing, is tried with the short histories.
BaseArtifacts ==
    [preprocessor |->
         File(FittedEncoder(<< <<"Away", "Home">>, <<"Atalanta", "Bologna">>,
                               <<"Atalanta", "Bologna">>, <<"3-5-2", "4-3-3">>,
                               <<"3-5-2", "4-3-3">> >>)),
     model_gf |-> File(OnVenueHome), model_ga |-> File(OnFirstTeam)]

Files(S) == {File(x) : x \in S} \cup {NoFile}

Worlds ==
    {[disk |-> [csv |-> File(h)] @@ BaseArtifacts, ties |-> t] :
        h \in Histories, t \in {"keep", "flip"}}
    \cup
    {[disk |-> [csv |-> c, preprocessor |-> e, model_gf |-> f, model_ga |-> a],
      ties |-> "keep"] :
        c \in Files({h \in Histories : Len(h) <= 1}),
        e \in Files(EncoderSet), f \in Files(ModelSet), a \in Files(ModelSet)}

NoRequest == [op |-> "none", args |-> <<>>, served |-> FALSE]

Init ==
    /\ \E w \in Worlds : disk = w.disk /\ ties = w.ties
    /\ pc = "prepare_dataset"
    /\ attrs = {}
    /\ df = <<>>
    /\ preprocessor = None
    /\ model_gf = None
    /\ model_ga = None
    /\ default_forms = None
    /\ predictor = "unbound"
    /\ resp = NoRequest
    /\ repeat = "none"

\* self.df = self._prepare_dataset()
InitDataset ==
    /\ pc = "prepare_dataset"
    /\ LET read == ReadCsv(disk.csv)
       IN  IF read.raised
           THEN /\ pc' = "aborted"
                /\ UNCHANGED <<attrs, df>>
           ELSE /\ pc' = "load_preprocessor"
                /\ df' = _prepare_dataset(read.value)
                /\ attrs' = attrs \cup {"df"}
    /\ UNCHANGED <<disk, ties, preprocessor, model_gf, model_ga, default_forms,
                   predictor, resp, repeat>>

\* self.preprocessor = joblib.load(PREPROCESSOR_PATH)
InitPreprocessor ==
    /\ pc = "load_preprocessor"
    /\ LET load == JoblibLoad(disk.preprocessor)
       IN  IF load.raised
           THEN /\ pc' = "aborted"
                /\ UNCHANGED <<attrs, preprocessor>>
           ELSE /\ pc' = "load_model_gf"
                /\ preprocessor' = load.value
                /\ attrs' = attrs \cup {"preprocessor"}
    /\ UNCHANGED <<disk, ties, df, model_gf, model_ga, default_forms,
                   predictor, resp, repeat>>

\* self.model_gf = joblib.load(MODEL_GF_PATH)
InitModelGf ==
    /\ pc = "load_model_gf"
    /\ LET load == JoblibLoad(disk.model_gf)
       IN  IF load.raised
           THEN /\ pc' = "aborted"
                /\ UNCHANGED <<attrs, model_gf>>
           ELSE /\ pc' = "load_model_ga"
                /\ model_gf' = load.value
                /\ attrs' = attrs \cup {"model_gf"}
    /\ UNCHANGED <<disk, ties, df, preprocessor, model_ga, default_forms,
                   predictor, resp, repeat>>

\* self.model_ga = joblib.load(MODEL_GA_PATH)
InitModelGa ==
    /\ pc = "load_model_ga"
    /\ LET load == JoblibLoad(disk.model_ga)
       IN  IF load.raised
           THEN /\ pc' = "aborted"
                /\ UNCHANGED <<attrs, model_ga>>
           ELSE /\ pc' = "default_forms"
                /\ model_ga' = load.value
                /\ attrs' = attrs \cup {"model_ga"}
    /\ UNCHANGED <<disk, ties, df, preprocessor, model_gf, default_forms,
                   predictor, resp, repeat>>

\* self.default_forms = ...; __init__ returns and main.py binds `predictor`
InitDefaultForms ==
    /\ pc = "default_forms"
    /\ default_forms' = DefaultForms(df)
    /\ attrs' = attrs \cup {"default_forms"}
    /\ predictor' = "bound"
    /\ pc' = "serving"
    /\ UNCHANGED <<disk, ties, df, preprocessor, model_gf, model_ga, resp, repeat>>

\* ----------------------------------------------------------------- requests
\* what callers ask with: every club of Names (known or not to the history
\* and to the encoder), a formation the artifacts know and one nobody knows
QueryTeams == Range(Names)
QueryFormations == {"3-5-2", "4-4-2"}
Limits == (0..MaxLimit) \cup {DefaultLimit}

Served(op, args, out) == [op |-> op, args |-> args, served |-> TRUE, out |-> out]

\* A request is handled in one step and its result is held in resp until it
\* has been returned to the caller (Return); the caller then asks again.
\* a query that reads the service and returns `out`
Query(op, args, out) ==
    /\ predictor = "bound"
    /\ resp = NoRequest
    /\ resp' = Served(op, args, out)
    /\ repeat' = "none"
    /\ UNCHANGED <<disk, ties, pc, attrs, df, preprocessor, model_gf, model_ga,
                   default_forms, predictor>>

TeamForm(team) == Query("team_form", <<team>>, _get_team_form(team))

MatchupForm(team, opponent) ==
    Query("matchup_form", <<team, opponent>>, _get_matchup_form(team, opponent))

Predict(team, opponent, venue, formation, opp_formation) ==
    Query("predict", <<team, opponent, venue, formation, opp_formation>>,
          predict(team, opponent, venue, formation, opp_formation))

\* ------------------------------------------------------ the request boundary
\* MatchRequest: venue: str = Field(pattern="^(Home|Away)$"); the other four
\* fields are any strings
MatchRequestValid(request) == request.venue \in {"Home", "Away"}

\* the predict the handler calls with the request's fields; `core` keeps the
\* arguments of that call
ForwardToCore(team, opponent, venue, formation, opp_formation) ==
    [status_code |-> 200,
     core |-> <<team, opponent, venue, formation, opp_formation>>,
     body |-> predict(team, opponent, venue, formation, opp_formation)]

\* predict_match with its teams-must-differ check left out
predict_matchUnchecked(request) ==
    IF ~MatchRequestValid(request)
    THEN [status_code |-> 422, core |-> None]
    ELSE ForwardToCore(request.team, request.opponent, request.venue,
                       request.formation, request.opp_formation)

\* POST /predict: the body is validated into a MatchRequest (422 when it is
\* not one), equal teams are refused with HTTPException(400), anything else is
\* passed to predictor.predict
predict_match(request) ==
    IF ~MatchRequestValid(request)
    THEN [status_code |-> 422, core |-> None]
    ELSE IF request.team = request.opponent
    THEN [status_code |-> 400, core |-> None]
    ELSE ForwardToCore(request.team, request.opponent, request.venue,
                       request.formation, request.opp_formation)

\* the bodies callers post: any two clubs, a venue of the form or not
RequestVenues == Venues \cup {"Neutral"}
MatchRequests ==
    [team : QueryTeams, opponent : QueryTeams, venue : RequestVenues,
     formation : QueryFormations, opp_formation : QueryFormations]

PredictMatch(request) ==
    Query("predict_match", <<request>>, predict_match(request))

\* the caller repeats the predict request it has just been answered
PredictAgain ==
    /\ predictor = "bound"
    /\ resp.op = "predict" /\ resp.served
    /\ repeat = "none"
    /\ \E out \in {predict(resp.args[1], resp.args[2], resp.args[3],
                           resp.args[4], resp.args[5])} :
           /\ resp' = Served("predict", resp.args, out)
           /\ repeat' = IF resp.out = out THEN "same" ELSE "differs"
    /\ UNCHANGED <<disk, ties, pc, attrs, df, preprocessor, model_gf, model_ga,
                   default_forms, predictor>>

ListTeams == Query("list_teams", <<>>, list_teams)

ListFormations == Query("list_formations", <<>>, list_formations)

TeamSummary ==
    /\ predictor = "bound"
    /\ resp = NoRequest
    /\ resp' = Served("team_summary", <<>>, team_summary)
    /\ df' = SummaryFrames(df).self_df
    /\ repeat' = "none"
    /\ UNCHANGED <<disk, ties, pc, attrs, preprocessor, model_gf, model_ga,
                   default_forms, predictor>>

RecentResults(team, limit) ==
    Query("recent_results", <<team, limit>>, recent_results(team, limit))

HeadToHead(team, opponent, limit) ==
    Query("head_to_head", <<team, opponent, limit>>,
          head_to_head(team, opponent, limit))

\* ------------------------------------------------------------------ the page
\* main.py 734-739: GET /head-to-head, head_to_head with its default limit
get_head_to_head(team, opponent) == head_to_head(team, opponent, DefaultLimit)

\* loadHeadToHead: the class a record's block of the bar is given
Normalized(record, team) ==
    IF record.result = "W"
    THEN (IF record.team = team THEN "win" ELSE "loss")
    ELSE IF record.result = "L"
         THEN (IF record.team = team THEN "loss" ELSE "win")
         ELSE "draw"

\* loadHeadToHead(team, opponent) of the page: the records fetched and what
\* is shown of them; without records the section is hidden and shows no bar
loadHeadToHead(team, opponent) ==
    LET records == get_head_to_head(team, opponent)
    IN  IF records = <<>>
        THEN [display |-> "none", records |-> records, bar |-> <<>>]
        ELSE [display |-> "block", records |-> records,
              bar |-> AsSeq([i \in DOMAIN records |-> Normalized(records[i], team)],
                            Len(records))]

LoadHeadToHead(team, opponent) ==
    Query("loadHeadToHead", <<team, opponent>>, loadHeadToHead(team, opponent))

\* main.py: `predictor = PredictorService()` raised while the module was
\* imported, so the application never came up: a request finds no service
Operations ==
    {"predict", "list_teams", "list_formations", "team_summary",
     "recent_results", "head_to_head"}

RequestRefused(op) ==
    /\ pc = "aborted"
    /\ resp = NoRequest
    /\ resp' = [op |-> op, args |-> <<>>, served |-> FALSE]
    /\ UNCHANGED <<disk, ties, pc, attrs, df, preprocessor, model_gf, model_ga,
                   default_forms, predictor, repeat>>

\* the result (or the refusal) reaches the caller
Return ==
    /\ resp # NoRequest
    /\ resp' = NoRequest
    /\ repeat' = "none"
    /\ UNCHANGED <<disk, ties, pc, attrs, df, preprocessor, model_gf, model_ga,
                   default_forms, predictor>>

Next ==
    \/ InitDataset
    \/ InitPreprocessor
    \/ InitModelGf
    \/ InitModelGa
    \/ InitDefaultForms
    \/ \E t \in QueryTeams : TeamForm(t)
    \/ \E t \in QueryTeams, o \in QueryTeams : MatchupForm(t, o)
    \/ \E t \in QueryTeams, o \in QueryTeams, v \in Venues,
          f \in QueryFormations, g \in QueryFormations : Predict(t, o, v, f, g)
    \/ \E request \in MatchRequests : PredictMatch(request)
    \/ PredictAgain
    \/ ListTeams
    \/ ListFormations
    \/ TeamSummary
    \/ \E t \in QueryTeams, n \in Limits : RecentResults(t, n)
    \/ \E t \in QueryTeams, o \in QueryTeams, n \in Limits : HeadToHead(t, o, n)
    \/ \E t \in QueryTeams, o \in QueryTeams : LoadHeadToHead(t, o)
    \/ \E op \in Operations : RequestRefused(op)
    \/ Return

Spec == Init /\ [][Next]_vars

\* ================================================================== claims
\* Row i of the table is a row of `team` (and `opponent`) that no other such
\* row is dated after.
IsLatestRow(i, team) ==
    /\ df[i].team = team
    /\ \A j \in DOMAIN df : df[j].team = team => df[j].date <= df[i].date

IsLatestMatchupRow(i, team, opponent) ==
    /\ df[i].team = team /\ df[i].opponent = opponent
    /\ \A j \in DOMAIN df :
           (df[j].team = team /\ df[j].opponent = opponent)
               => df[j].date <= df[i].date

SameValues(out, cols, row) ==
    /\ DOMAIN out = Range(cols)
    /\ \A c \in Range(cols) : out[c] = row[c]

TeamFormAnswered == resp.op = "team_form" /\ resp.served
MatchupFormAnswered == resp.op = "matchup_form" /\ resp.served

\* C1: for a team with at least one row in the prepared table, team_form
\* returns the four team-form values stored on a row of that team with the
\* greatest date: not those of another team's row, not those of an earlier row.
C1_TeamFormIsLatestRow ==
    (TeamFormAnswered /\ TeamRows(df, resp.args[1]) # <<>>)
        => \E i \in DOMAIN df :
               /\ IsLatestRow(i, resp.args[1])
               /\ SameValues(resp.out, TEAM_FORM_COLS, df[i])

\* team_form answered for a team whose latest row is its only row of that
\* date and holds values that no earlier row of the team and no row of another
\* team holds
C1_Witness ==
    /\ TeamFormAnswered
    /\ \E i \in DOMAIN df :
           /\ IsLatestRow(i, resp.args[1])
           /\ SameValues(resp.out, TEAM_FORM_COLS, df[i])
           /\ \E j \in DOMAIN df : df[j].team = resp.args[1] /\ df[j].date < df[i].date
           /\ \E j \in DOMAIN df : df[j].team # resp.args[1]
           /\ \A j \in DOMAIN df \ {i} :
                  ~SameValues(resp.out, TEAM_FORM_COLS, df[j])

\* C2: without a row of (team, opponent), matchup_form is team_form(team)
\* under the matchup keys (gm_form as gf_vs_opp, ga_form as ga_vs_opp, xg_form
\* as xg_vs_opp, xga_form as xga_vs_opp), and for a team without rows these
\* are the default team-form values; with such a row it is the four matchup
\* columns of a latest-dated one.
C2_MatchupFormFallsBackToTeamForm ==
    MatchupFormAnswered =>
        IF MatchupRows(df, resp.args[1], resp.args[2]) = <<>>
        THEN /\ DOMAIN resp.out = Range(MATCHUP_FORM_COLS)
             /\ \A k \in DOMAIN MATCHUP_FORM_COLS :
                    /\ resp.out[MATCHUP_FORM_COLS[k]]
                           = _get_team_form(resp.args[1])[TEAM_FORM_COLS[k]]
                    /\ TeamRows(df, resp.args[1]) = <<>>
                           => resp.out[MATCHUP_FORM_COLS[k]]
                                  = default_forms[TEAM_FORM_COLS[k]]
        ELSE \E i \in DOMAIN df :
                 /\ IsLatestMatchupRow(i, resp.args[1], resp.args[2])
                 /\ SameValues(resp.out, MATCHUP_FORM_COLS, df[i])

\* matchup_form answered for a team without any row, in a table whose default
\* team-form values are not its default matchup values
C2_Witness ==
    /\ MatchupFormAnswered
    /\ TeamRows(df, resp.args[1]) = <<>>
    /\ df # <<>>
    /\ \A k \in DOMAIN MATCHUP_FORM_COLS :
           /\ default_forms[TEAM_FORM_COLS[k]] # default_forms[MATCHUP_FORM_COLS[k]]
           /\ resp.out[MATCHUP_FORM_COLS[k]] = default_forms[TEAM_FORM_COLS[k]]

HeadToHeadAnswered == resp.op = "head_to_head" /\ resp.served
PredictAnswered == resp.op = "predict" /\ resp.served /\ resp.out.status = "ok"

\* C3: every record head_to_head returns is labelled from the side of the
\* record's own team: 'W' if its gf > ga, 'L' if gf < ga, 'D' otherwise,
\* whichever of the two teams was asked for; so head_to_head(T, O, n) and
\* head_to_head(O, T, n) give a shared row the same label.
C3_LabelIsRowRelative ==
    HeadToHeadAnswered =>
        \A i \in DOMAIN resp.out :
            resp.out[i].result
                = (IF RLt(resp.out[i].ga, resp.out[i].gf) THEN "W"
                   ELSE IF RLt(resp.out[i].gf, resp.out[i].ga) THEN "L"
                   ELSE "D")

\* |x - n| as a rational, n an integer
Distance(x, n) ==
    IF RLt(x, FromInt(n)) THEN RSub(FromInt(n), x) ELSE RSub(x, FromInt(n))

\* n is the integer nearest to x, the even one of the two when x lies halfway
IsNearestTiesToEven(x, n) ==
    /\ RLe(Distance(x, n), Rat(1, 2))
    /\ Distance(x, n) = Rat(1, 2) => n % 2 = 0

\* r is x rounded to the nearest integer, ties to even, then held to 0..15
IsRoundedAndClamped(x, r) ==
    /\ r \in 0..15
    /\ \E n \in -20..40 :
           /\ IsNearestTiesToEven(x, n)
           /\ r = (IF n < 0 THEN 0 ELSE IF n > 15 THEN 15 ELSE n)

\* C4: predict sets both rounded fields to the raw value rounded to the
\* nearest integer, ties to even, then clamped to 0..15, so both are integers
\* of 0..15; -0.3 gives 0, 15.9 gives 15 and 2.5 gives 2.
C4_RoundedAndClamped ==
    /\ PredictAnswered =>
           /\ IsRoundedAndClamped(resp.out.pred_goals_for,
                                  resp.out.pred_goals_for_round)
           /\ IsRoundedAndClamped(resp.out.pred_goals_against,
                                  resp.out.pred_goals_against_round)
    /\ \A g \in {"pred_goals_for", "pred_goals_against"} :
           LET round == IF g = "pred_goals_for" THEN "pred_goals_for_round"
                        ELSE "pred_goals_against_round"
           IN  PredictAnswered =>
                   /\ resp.out[g] = Rat(-3, 10) => resp.out[round] = 0
                   /\ resp.out[g] = Rat(159, 10) => resp.out[round] = 15
                   /\ resp.out[g] = Rat(5, 2) => resp.out[round] = 2

\* a prediction of 2.5 goals for, given as 2, and 15.9 against, given as 15
C4_Witness ==
    /\ PredictAnswered
    /\ resp.out.pred_goals_for = Rat(5, 2)
    /\ resp.out.pred_goals_for_round = 2
    /\ resp.out.pred_goals_against = Rat(159, 10)
    /\ resp.out.pred_goals_against_round = 15

\* C5: result is 'W' exactly when pred_goals_for_round is the greater, 'L'
\* exactly when it is the smaller and 'D' exactly when the two rounded
\* integers are equal: the rounded, clamped integers decide, never the raw
\* values.
C5_LabelFromRoundedGoals ==
    PredictAnswered =>
        /\ resp.out.result \in {"W", "L", "D"}
        /\ resp.out.result = "W"
               <=> resp.out.pred_goals_for_round > resp.out.pred_goals_against_round
        /\ resp.out.result = "L"
               <=> resp.out.pred_goals_for_round < resp.out.pred_goals_against_round
        /\ resp.out.result = "D"
               <=> resp.out.pred_goals_for_round = resp.out.pred_goals_against_round

\* two different raw predictions that round to the same integer, labelled 'D'
C5_Witness ==
    /\ PredictAnswered
    /\ resp.out.pred_goals_for # resp.out.pred_goals_against
    /\ resp.out.pred_goals_for_round = resp.out.pred_goals_against_round
    /\ resp.out.result = "D"

\* the mean of a column of the prepared table, 0 for a table without rows
DatasetMean(col) ==
    IF df = <<>> THEN FromInt(0)
    ELSE RDiv(RSum(Column(df, col)), FromInt(Len(df)))

\* C6: predict never fails because the team, the opponent or a formation is
\* absent from the history: for a team without rows team_form is the
\* dataset-wide mean of each team-form column (0.0 for an empty dataset), and
\* the feature record still holds all thirteen fields.
C6_UnknownNamesDegradeToDefaults ==
    /\ (resp.op = "predict" /\ resp.served) =>
           /\ resp.out.status = "ok"
           /\ resp.out.features.columns = FEATURE_COLS
           /\ DOMAIN resp.out.features.values = Range(FEATURE_COLS)
           /\ Cardinality(Range(FEATURE_COLS)) = 13
           /\ \A c \in Range(TEAM_FORM_COLS \o MATCHUP_FORM_COLS) :
                  ~IsNaN(resp.out.features.values[c])
           /\ TeamRows(df, resp.args[1]) = <<>> =>
                  \A c \in Range(TEAM_FORM_COLS) :
                      resp.out.features.values[c] = DatasetMean(c)
    /\ (TeamFormAnswered /\ TeamRows(df, resp.args[1]) = <<>>) =>
           /\ DOMAIN resp.out = Range(TEAM_FORM_COLS)
           /\ \A c \in Range(TEAM_FORM_COLS) : resp.out[c] = DatasetMean(c)

\* a prediction for a team without rows and unknown to the encoder, with a
\* formation that neither the history nor the encoder has seen
C6_Witness ==
    /\ PredictAnswered
    /\ df # <<>>
    /\ TeamRows(df, resp.args[1]) = <<>>
    /\ \A i \in DOMAIN df : df[i].formation # resp.args[4]
    /\ {2, 4} \subseteq UnknownCategories(preprocessor, resp.out.features.values)
    /\ \E c \in Range(TEAM_FORM_COLS) :
           resp.out.features.values[c] # FromInt(0)

\* the attributes __init__ sets, in the order it sets them, and the file each
\* of the first four is loaded from
InitOrder == <<"df", "preprocessor", "model_gf", "model_ga", "default_forms">>
LoadedFrom == <<"csv", "preprocessor", "model_gf", "model_ga">>
ArtifactsLoaded == {"preprocessor", "model_gf", "model_ga"} \subseteq attrs

\* C7: no request is served unless the history table, the encoder and both
\* regressors have all been loaded successfully before: a failing load ends
\* the construction of the service at once, no later load is attempted, and
\* the request layer never holds a partially initialised service.
C7_NoServiceWithoutAllLoads ==
    /\ \A k \in DOMAIN LoadedFrom : InitOrder[k] \in attrs => disk[LoadedFrom[k]].ok
    /\ \A k \in 2..Len(InitOrder) : InitOrder[k] \in attrs => InitOrder[k - 1] \in attrs
    /\ "preprocessor" \notin attrs => preprocessor = None
    /\ "model_gf" \notin attrs => model_gf = None
    /\ "model_ga" \notin attrs => model_ga = None
    /\ (predictor = "bound" \/ resp.served) =>
           /\ pc = "serving" /\ predictor = "bound"
           /\ attrs = Range(InitOrder)
           /\ preprocessor = disk.preprocessor.data
           /\ model_gf = disk.model_gf.data
           /\ model_ga = disk.model_ga.data
    /\ pc = "aborted" =>
           /\ predictor = "unbound"
           /\ \E k \in DOMAIN LoadedFrom :
                  /\ ~disk[LoadedFrom[k]].ok
                  /\ attrs = {InitOrder[j] : j \in 1..(k - 1)}

\* the table and the encoder were loaded, model_gf.pkl could not be: model_ga
\* was never loaded although its file is there, and a request is refused
C7_Witness ==
    /\ pc = "aborted"
    /\ attrs = {"df", "preprocessor"}
    /\ ~disk.model_gf.ok /\ disk.model_ga.ok
    /\ model_ga = None
    /\ resp.op = "predict" /\ ~resp.served

\* how a request ended: the status of what it returned, or not served at all
Outcome == IF resp.served THEN resp.out.status ELSE "not served"

RecentResultsAnswered == resp.op = "recent_results" /\ resp.served

\* the sequences of n different row numbers of the table
RowPicks(n) ==
    {p \in [1..n -> DOMAIN df] : \A a, b \in 1..n : a # b => p[a] # p[b]}

\* p lists rows of `team` from its most recent one on, no later row left out
IsMostRecentFirst(p, team) ==
    /\ \A a \in DOMAIN p : df[p[a]].team = team
    /\ \A a, b \in DOMAIN p : a < b => df[p[a]].date >= df[p[b]].date
    /\ \A j \in DOMAIN df :
           (df[j].team = team /\ \A a \in DOMAIN p : p[a] # j)
               => \A a \in DOMAIN p : df[j].date <= df[p[a]].date

\* C11: recent_results(T, n), n >= 0, returns at most n labels, one per row
\* of T in descending date order from T's most recent row on, each 'W' if the
\* row's gf > ga, 'L' if gf < ga, 'D' otherwise; the empty sequence when T has
\* no rows.
C11_RecentResultsLatestFirst ==
    RecentResultsAnswered =>
        LET held == Len(TeamRows(df, resp.args[1]))
            n == IF resp.args[2] < held THEN resp.args[2] ELSE held
        IN  /\ Len(resp.out) = n
            /\ Len(resp.out) <= resp.args[2]
            /\ held = 0 => resp.out = <<>>
            /\ \E p \in RowPicks(n) :
                   /\ IsMostRecentFirst(p, resp.args[1])
                   /\ \A a \in 1..n :
                          resp.out[a] = (IF df[p[a]].gf > df[p[a]].ga THEN "W"
                                         ELSE IF df[p[a]].gf < df[p[a]].ga THEN "L"
                                         ELSE "D")

\* a team with three rows of three dates asked for its two latest results,
\* which differ from each other; its oldest row is left out
C11_Witness ==
    /\ RecentResultsAnswered
    /\ resp.args[2] = 2
    /\ Len(resp.out) = 2
    /\ resp.out[1] # resp.out[2]
    /\ \E i, j, k \in DOMAIN df :
           /\ df[i].team = resp.args[1] /\ df[j].team = resp.args[1]
           /\ df[k].team = resp.args[1]
           /\ df[i].date < df[j].date /\ df[j].date < df[k].date

\* row j is a match between the two teams, from either side
IsSharedRow(j, team, opponent) ==
    \/ df[j].team = team /\ df[j].opponent = opponent
    \/ df[j].team = opponent /\ df[j].opponent = team

\* p lists shared rows from the most recent one on, no later one left out
IsSharedMostRecentFirst(p, team, opponent) ==
    /\ \A a \in DOMAIN p : IsSharedRow(p[a], team, opponent)
    /\ \A a, b \in DOMAIN p : a < b => df[p[a]].date >= df[p[b]].date
    /\ \A j \in DOMAIN df :
           (IsSharedRow(j, team, opponent) /\ \A a \in DOMAIN p : p[a] # j)
               => \A a \in DOMAIN p : df[j].date <= df[p[a]].date

\* a record without its label
Match(record) ==
    [date |-> record.date, team |-> record.team, opponent |-> record.opponent,
     gf |-> record.gf, ga |-> record.ga]

\* C12: head_to_head(T, O, n) and head_to_head(O, T, n) select the same rows
\* (all rows where {team, opponent} = {T, O}, date-descending, cut to n) and
\* return equally many records with the same team, opponent, gf, ga and date
\* in the same order; both are empty when the two teams share no row.
C12_HeadToHeadSameRowsBothWays ==
    HeadToHeadAnswered =>
        LET T == resp.args[1]
            O == resp.args[2]
            shared == Cardinality({j \in DOMAIN df : IsSharedRow(j, T, O)})
            n == IF resp.args[3] < shared THEN resp.args[3] ELSE shared
        IN  /\ Len(resp.out) = n
            /\ shared = 0 => resp.out = <<>>
            /\ \E p \in RowPicks(n) :
                   /\ IsSharedMostRecentFirst(p, T, O)
                   /\ \A a \in 1..n :
                          Match(resp.out[a])
                              = [date |-> IsoDates[df[p[a]].date],
                                 team |-> df[p[a]].team,
                                 opponent |-> df[p[a]].opponent,
                                 gf |-> <<df[p[a]].gf, 1>>,
                                 ga |-> <<df[p[a]].ga, 1>>]
            /\ LET other == head_to_head(O, T, resp.args[3])
               IN  /\ Len(other) = Len(resp.out)
                   /\ \A a \in 1..n : Match(other[a]) = Match(resp.out[a])

\* two records of different dates returned, one seen from each team's side,
\* while an older shared match is cut off by the limit
C12_Witness ==
    /\ HeadToHeadAnswered
    /\ resp.args[1] # resp.args[2]
    /\ resp.args[3] = 2
    /\ Len(resp.out) = 2
    /\ resp.out[1].team # resp.out[2].team
    /\ resp.out[1].date # resp.out[2].date
    /\ Cardinality({j \in DOMAIN df :
                       IsSharedRow(j, resp.args[1], resp.args[2])}) > 2

TeamSummaryAnswered == resp.op = "team_summary" /\ resp.served

\* the rows of a team, as row numbers of the table
RowsOf(team) == {j \in DOMAIN df : df[j].team = team}

\* the sum of a column over a set of rows
RECURSIVE Total(_, _)
Total(rows, col) ==
    IF rows = {} THEN 0
    ELSE LET j == CHOOSE k \in rows : TRUE
         IN  df[j][col] + Total(rows \ {j}, col)

\* 100 x part / whole, as a rational in lowest terms
Percent(part, whole) == Rat(100 * part, whole)

\* C13: team_summary returns exactly one record per distinct team of the
\* table; in each, total_gf and total_ga are the sums of the team's gf and ga,
\* goal_diff = total_gf - total_ga, win_rate = 100 x (rows with gf > ga) /
\* (rows), draw_rate = 100 x (rows with gf = ga) / (rows), and so
\* win_rate + draw_rate <= 100.
C13_TeamSummaryPerTeam ==
    TeamSummaryAnswered =>
        /\ {resp.out[a].team : a \in DOMAIN resp.out} = {df[j].team : j \in DOMAIN df}
        /\ \A a, b \in DOMAIN resp.out : a # b => resp.out[a].team # resp.out[b].team
        /\ \A a \in DOMAIN resp.out :
               LET rec == resp.out[a]
                   rows == RowsOf(rec.team)
               IN  /\ rec.matches = Cardinality(rows)
                   /\ rec.total_gf = Total(rows, "gf")
                   /\ rec.total_ga = Total(rows, "ga")
                   /\ rec.goal_diff = rec.total_gf - rec.total_ga
                   /\ rec.win_rate
                          = Percent(Cardinality({j \in rows : df[j].gf > df[j].ga}),
                                    Cardinality(rows))
                   /\ rec.draw_rate
                          = Percent(Cardinality({j \in rows : df[j].gf = df[j].ga}),
                                    Cardinality(rows))
                   /\ RLe(RAdd(rec.win_rate, rec.draw_rate), FromInt(100))

\* a summary of two teams, one of them with a win, a draw and a defeat
C13_Witness ==
    /\ TeamSummaryAnswered
    /\ Len(resp.out) = 2
    /\ \E a \in DOMAIN resp.out :
           /\ resp.out[a].matches = 3
           /\ resp.out[a].win_rate = Rat(100, 3)
           /\ resp.out[a].draw_rate = Rat(100, 3)
           /\ resp.out[a].goal_diff = 0

\* s runs through the labels of `order` strictly upwards: ascending, no label
\* twice
IsStrictlyAscending(s, order) ==
    \A a, b \in DOMAIN s : a < b => Pos(order, s[a]) < Pos(order, s[b])

\* C14: list_teams returns every distinct value of the team column exactly
\* once in ascending lexicographic order; list_formations returns every
\* distinct non-missing value of the formation column or of the opponent
\* formation column exactly once in ascending lexicographic order.
C14_ListsSortedAndDistinct ==
    /\ (resp.op = "list_teams" /\ resp.served) =>
           /\ Range(resp.out) = {df[j].team : j \in DOMAIN df}
           /\ IsStrictlyAscending(resp.out, Names)
    /\ (resp.op = "list_formations" /\ resp.served) =>
           /\ Range(resp.out)
                  = ({df[j].formation : j \in DOMAIN df}
                         \cup {df[j].opp_formation : j \in DOMAIN df})
                    \ {MissingLabel}
           /\ IsStrictlyAscending(resp.out, Formations)

\* list_formations answered with two labels for a table in which one label
\* stands in both columns, one in the opponent's column only, and a cell of
\* the formation column is missing
C14_Witness ==
    /\ resp.op = "list_formations" /\ resp.served
    /\ Len(resp.out) = 2
    /\ \E i, j \in DOMAIN df : df[i].formation = df[j].opp_formation
    /\ \E l \in Range(resp.out) : \A j \in DOMAIN df : df[j].formation # l
    /\ \E j \in DOMAIN df : df[j].formation = MissingLabel

PredictMatchAnswered == resp.op = "predict_match" /\ resp.served

\* C15: a predict request whose team equals its opponent, or whose venue is
\* neither 'Home' nor 'Away', is rejected at the request boundary with an
\* error outcome and never reaches the core predict; a request with distinct
\* teams and a valid venue is always forwarded to the core with its five
\* fields unchanged.
C15_BoundaryRejectsOrForwards ==
    PredictMatchAnswered =>
        LET request == resp.args[1]
        IN  IF request.team = request.opponent
               \/ (request.venue # "Home" /\ request.venue # "Away")
            THEN /\ resp.out.status_code \in 400..499
                 /\ resp.out.core = None
                 /\ "body" \notin DOMAIN resp.out
            ELSE /\ resp.out.status_code = 200
                 /\ resp.out.core = <<request.team, request.opponent, request.venue,
                                      request.formation, request.opp_formation>>
                 /\ resp.out.body.status = "ok"
                 /\ resp.out.body.team = request.team
                 /\ resp.out.body.opponent = request.opponent
                 /\ resp.out.body.venue = request.venue
                 /\ resp.out.body.formation = request.formation
                 /\ resp.out.body.opp_formation = request.opp_formation

\* a request for a club against itself, at a valid venue, turned down with
\* 400 without a call of the core
C15_Witness ==
    /\ PredictMatchAnswered
    /\ resp.args[1].team = resp.args[1].opponent
    /\ resp.args[1].venue = "Home"
    /\ resp.out.status_code = 400
    /\ resp.out.core = None

\* C16: the feature record built for inference has exactly the thirteen
\* fields venue, team, opponent, formation, opp formation, gm_form, ga_form,
\* xg_form, xga_form, gf_vs_opp, ga_vs_opp, xg_vs_opp, xga_vs_opp in that
\* order, the names and order of the column list the encoder was fitted on in
\* the training script; the four team-form fields come from team_form(team),
\* the four matchup fields from matchup_form(team, opponent), and no field is
\* missing.
C16_FeatureRecordMatchesTraining ==
    PredictAnswered =>
        LET features == resp.out.features
        IN  /\ features.columns
                   = <<"venue", "team", "opponent", "formation", "opp formation",
                       "gm_form", "ga_form", "xg_form", "xga_form",
                       "gf_vs_opp", "ga_vs_opp", "xg_vs_opp", "xga_vs_opp">>
            /\ Len(features.columns) = 13
            /\ features.columns = feature_cols
            /\ features.columns = CategoricalCols \o NumericalCols
            /\ DOMAIN features.values = Range(features.columns)
            /\ features.values["team"] = resp.args[1]
            /\ features.values["opponent"] = resp.args[2]
            /\ features.values["venue"] = resp.args[3]
            /\ features.values["formation"] = resp.args[4]
            /\ features.values["opp formation"] = resp.args[5]
            /\ \A c \in Range(TEAM_FORM_COLS) :
                   /\ features.values[c] = _get_team_form(resp.args[1])[c]
                   /\ ~IsNaN(features.values[c])
            /\ \A c \in Range(MATCHUP_FORM_COLS) :
                   /\ features.values[c]
                          = _get_matchup_form(resp.args[1], resp.args[2])[c]
                   /\ ~IsNaN(features.values[c])

\* a feature record for a team with rows against an opponent it has met,
\* whose four matchup values are not its four team-form values, and for two
\* different formations
C16_Witness ==
    /\ PredictAnswered
    /\ MatchupRows(df, resp.args[1], resp.args[2]) # <<>>
    /\ resp.args[4] # resp.args[5]
    /\ \A k \in DOMAIN TEAM_FORM_COLS :
           resp.out.features.values[TEAM_FORM_COLS[k]]
               # resp.out.features.values[MATCHUP_FORM_COLS[k]]

\* the table has just been prepared from the source
JustPrepared == pc = "load_preprocessor"

\* what names a match in the source: no two of its rows agree on all three
MatchKey(r) == <<r.team, r.opponent, r.date>>

\* the four team-level and the four matchup-level EWM columns
TeamLevel == <<"gf_ewm_team", "ga_ewm_team", "xg_ewm_team", "xga_ewm_team">>
MatchupLevel ==
    <<"gf_ewm_matchup", "ga_ewm_matchup", "xg_ewm_matchup", "xga_ewm_matchup">>

\* the rows of a source that belong to the group of row r
SameTeam(rows, r) == {MatchKey(q) : q \in {x \in Range(rows) : x.team = r.team}}
SamePair(rows, r) ==
    {MatchKey(q) : q \in {x \in Range(rows) :
                              x.team = r.team /\ x.opponent = r.opponent}}

\* C17: before the fallback filling, the team-level form value of a row of
\* team T depends only on the rows of T dated strictly earlier: the recursion
\* restarts at each team, so the value is missing at each team's first row,
\* and two sources that agree on T's rows give T's rows the same team-level
\* values.
C17_TeamFormOnlyFromOwnTeam ==
    JustPrepared =>
        LET ewm == WithFormColumns(disk.csv.data)
        IN  /\ \A i \in DOMAIN ewm :
                   (\A j \in DOMAIN ewm :
                        ewm[j].team = ewm[i].team => ewm[j].date >= ewm[i].date)
                       => \A c \in Range(TeamLevel) : IsNaN(ewm[i][c])
            /\ \A other \in Histories :
                   \A i \in DOMAIN ewm :
                       SameTeam(other, ewm[i]) = SameTeam(disk.csv.data, ewm[i])
                           => \E r \in Range(WithFormColumns(other)) :
                                  /\ MatchKey(r) = MatchKey(ewm[i])
                                  /\ \A c \in Range(TeamLevel) : r[c] = ewm[i][c]

\* C18: before the fallback filling, the matchup-level form value of a row is
\* the EWM (decay 0.6) over the strictly earlier rows of its own (team,
\* opponent) pair only: the recursion restarts at each pair, so the value is
\* missing at the first row of each pair, and rows of other pairs never
\* influence it.
C18_MatchupFormOnlyFromOwnPair ==
    JustPrepared =>
        LET ewm == WithFormColumns(disk.csv.data)
        IN  /\ \A i \in DOMAIN ewm :
                   (\A j \in DOMAIN ewm :
                        (ewm[j].team = ewm[i].team
                             /\ ewm[j].opponent = ewm[i].opponent)
                            => ewm[j].date >= ewm[i].date)
                       => \A c \in Range(MatchupLevel) : IsNaN(ewm[i][c])
            /\ \A other \in Histories :
                   \A i \in DOMAIN ewm :
                       SamePair(other, ewm[i]) = SamePair(disk.csv.data, ewm[i])
                           => \E r \in Range(WithFormColumns(other)) :
                                  /\ MatchKey(r) = MatchKey(ewm[i])
                                  /\ \A c \in Range(MatchupLevel) : r[c] = ewm[i][c]

\* the source with one metric of its k-th row raised by one
Changed(rows, k, metric) ==
    [rows EXCEPT ![k] = [@ EXCEPT ![metric] =
        IF metric \in {"gf", "ga"} THEN @ + 1 ELSE RAdd(@, FromInt(1))]]

\* the eight form values of a row of the prepared table
FormValues(r) == [c \in Range(TEAM_FORM_COLS \o MATCHUP_FORM_COLS) |-> r[c]]

\* C19: after the whole preparation the eight form values of a row depend
\* only on matches dated strictly before the row's date: changing the row's
\* own gf, ga, xg or xga, or those of a later-dated row, leaves the row's
\* eight form values as they were.
C19_FormsOnlyFromEarlierMatches ==
    JustPrepared =>
        \A k \in DOMAIN disk.csv.data, metric \in Range(Metrics) :
            LET changed == _prepare_dataset(Changed(disk.csv.data, k, metric))
                date == ToDatetime(disk.csv.data[k].date)
            IN  \A i \in DOMAIN df :
                    (df[i].idx = disk.csv.data[k].idx \/ df[i].date < date)
                        => \E r \in Range(changed) :
                               /\ r.idx = df[i].idx
                               /\ FormValues(r) = FormValues(df[i])

\* the sum and the mean of the values f holds at the places S
RECURSIVE SumAt(_, _)
SumAt(f, S) ==
    IF S = {} THEN FromInt(0)
    ELSE LET j == CHOOSE k \in S : TRUE
         IN  RAdd(f[j], SumAt(f, S \ {j}))

MeanAt(f, S) == RDiv(SumAt(f, S), FromInt(Cardinality(S)))

\* a column of the frame as it stands after the EWM step, and its places
\* that hold a value
Present(ewm, col) == {j \in DOMAIN ewm : ~IsNaN(ewm[j][col])}
ValuesOf(ewm, col) == [j \in DOMAIN ewm |-> ewm[j][col]]

\* the places of the column that hold a value and belong to the team of row j
OfTeam(ewm, col, j) == {q \in Present(ewm, col) : ewm[q].team = ewm[j].team}

\* the column after the first tier: a missing value replaced by the mean of
\* the team's values, where the team has any
AfterTeamTier(ewm, col) ==
    [j \in DOMAIN ewm |->
        IF j \in Present(ewm, col) THEN ewm[j][col]
        ELSE IF OfTeam(ewm, col, j) # {}
             THEN MeanAt(ValuesOf(ewm, col), OfTeam(ewm, col, j))
             ELSE NaN]

\* what the three tiers leave at place j of the column
Tiered(ewm, col, j) ==
    LET first == AfterTeamTier(ewm, col)
        held == {q \in DOMAIN ewm : ~IsNaN(first[q])}
    IN  IF ~IsNaN(first[j]) THEN first[j]
        ELSE IF held # {} THEN MeanAt(first, held)
        ELSE FromInt(0)

\* the name a derived column has in the prepared table
PreparedName ==
    [k \in DOMAIN ewm_cols |-> (TEAM_FORM_COLS \o MATCHUP_FORM_COLS)[k]]

\* C20: after preparation no derived form column holds a missing value, and
\* every value missing after the EWM step was filled by the first tier that
\* applies: the mean of the column over the row's team, else the mean of the
\* column over the table, else 0.0; a value not missing after the EWM step is
\* left as it was.
C20_ThreeTierFill ==
    /\ \A i \in DOMAIN df :
           \A c \in Range(TEAM_FORM_COLS \o MATCHUP_FORM_COLS) : ~IsNaN(df[i][c])
    /\ JustPrepared =>
           LET ewm == WithFormColumns(disk.csv.data)
           IN  /\ Len(df) = Len(ewm)
               /\ \A j \in DOMAIN ewm :
                      \E i \in DOMAIN df :
                          /\ df[i].idx = ewm[j].idx
                          /\ \A k \in DOMAIN ewm_cols :
                                 df[i][PreparedName[k]] = Tiered(ewm, ewm_cols[k], j)

\* one prepared column in which one value stood after the EWM step, one was
\* filled with its team's mean and one, of a team without any value, with the
\* mean of the column
C20_Witness ==
    /\ JustPrepared
    /\ \E col \in Range(ewm_cols) :
           LET ewm == WithFormColumns(disk.csv.data)
           IN  /\ Present(ewm, col) # {}
               /\ \E j \in DOMAIN ewm \ Present(ewm, col) : OfTeam(ewm, col, j) # {}
               /\ \E j \in DOMAIN ewm \ Present(ewm, col) :
                      /\ OfTeam(ewm, col, j) = {}
                      /\ \E i \in DOMAIN df :
                             /\ df[i].idx = ewm[j].idx
                             /\ df[i][PreparedName[Pos(ewm_cols, col)]] # FromInt(0)

\* the recurrence ewm[0] = x[0], ewm[i] = alpha*x[i] + (1 - alpha)*ewm[i-1],
\* at the i-th of the integers x
RECURSIVE Recurrence(_, _, _)
Recurrence(x, alpha, i) ==
    IF i = 1 THEN FromInt(x[1])
    ELSE RAdd(RMul(alpha, FromInt(x[i])),
              RMul(RSub(FromInt(1), alpha), Recurrence(x, alpha, i - 1)))

\* the prepared table is the history of one team alone, whose rows have
\* different dates and, in date order, the gf values x
IsHistoryOf(team, x) ==
    /\ Len(df) = Len(x)
    /\ \A i \in DOMAIN df : df[i].team = team
    /\ \E p \in RowPicks(Len(x)) :
           /\ \A a, b \in DOMAIN p : a < b => df[p[a]].date < df[p[b]].date
           /\ \A a \in DOMAIN p : df[p[a]].gf = x[a]

\* C21: for the history of a single team with three dated rows whose gf are
\* 1, 3, 2 in date order, the gm_form of team_form of that team, the value a
\* fourth match would be given, is the recurrence with alpha = 1/3 computed
\* over all of 1, 3, 2.
C21_FormCoversAllThreeMatches ==
    (TeamFormAnswered /\ IsHistoryOf(resp.args[1], <<1, 3, 2>>))
        => resp.out["gm_form"] = Recurrence(<<1, 3, 2>>, Rat(1, 3), 3)

\* the places of an EWM column that the team tier fills, and those left to
\* the column's own mean
TeamFilled(ewm, col) ==
    {j \in DOMAIN ewm \ Present(ewm, col) : OfTeam(ewm, col, j) # {}}
DatasetFilled(ewm, col) ==
    {j \in DOMAIN ewm \ Present(ewm, col) : OfTeam(ewm, col, j) = {}}

\* the service has just been constructed and has served nothing yet
JustConstructed == pc = "serving" /\ resp = NoRequest /\ repeat = "none"

\* C22: the serving preparation and the training script's preparation give
\* every row the same eight form values, although serving fills column by
\* column (team mean, then column mean) and training fills all columns with
\* the team means before it fills any with the column means; the default
\* forms of the two are equal too.
C22_ServingEqualsTraining ==
    /\ JustPrepared =>
           LET trained == TrainingFrame(disk.csv.data)
           IN  /\ Len(trained) = Len(df)
               /\ \A i \in DOMAIN df :
                      \E r \in Range(trained) :
                          /\ r.idx = df[i].idx
                          /\ FormValues(r) = FormValues(df[i])
    /\ JustConstructed =>
           default_forms = TrainingDefaultForms(TrainingFrame(disk.csv.data))

\* a table prepared in which two columns each have a value filled by the team
\* tier and a value left to the column's mean, the latter not 0
C22_Witness ==
    /\ JustPrepared
    /\ \E c1, c2 \in DOMAIN ewm_cols :
           LET ewm == WithFormColumns(disk.csv.data)
           IN  /\ c1 < c2
               /\ \A c \in {c1, c2} :
                      /\ TeamFilled(ewm, ewm_cols[c]) # {}
                      /\ \E j \in DatasetFilled(ewm, ewm_cols[c]) :
                             \E i \in DOMAIN df :
                                 /\ df[i].idx = ewm[j].idx
                                 /\ df[i][PreparedName[c]] # FromInt(0)
                                 /\ df[i][PreparedName[c]] # df[i][PreparedName[c1 + c2 - c]]

\* the rows of the table shared by the two teams
SharedRows(team, opponent) == {j \in DOMAIN df : IsSharedRow(j, team, opponent)}

\* every match of the two teams is in the table once from each side: a shared
\* row has exactly one shared row of its date with the teams exchanged, and
\* no second row of its own side on that date
HoldsBothPerspectives(team, opponent) ==
    \A j \in SharedRows(team, opponent) :
        /\ Cardinality({k \in SharedRows(team, opponent) :
                           /\ df[k].date = df[j].date
                           /\ df[k].team = df[j].opponent}) = 1
        /\ Cardinality({k \in SharedRows(team, opponent) :
                           /\ df[k].date = df[j].date
                           /\ df[k].team = df[j].team}) = 1

\* the matches the records are about
MatchesCovered(records) == {records[i].date : i \in DOMAIN records}

\* C23: when the history holds both perspective rows of each match of T and
\* O, head_to_head(T, O, n) counts every perspective row toward the limit: it
\* returns min(n, shared rows) records, both rows of a match among them, and
\* the records cover ceil(records / 2) different matches, not one match each.
C23_LimitCountsPerspectiveRows ==
    (/\ HeadToHeadAnswered
     /\ resp.args[1] # resp.args[2]
     /\ HoldsBothPerspectives(resp.args[1], resp.args[2]))
        => LET shared == Cardinality(SharedRows(resp.args[1], resp.args[2]))
               n == IF resp.args[3] < shared THEN resp.args[3] ELSE shared
           IN  /\ Len(resp.out) = n
               /\ Cardinality(MatchesCovered(resp.out)) = (n + 1) \div 2
               /\ \A i \in DOMAIN resp.out :
                      i + 1 \in DOMAIN resp.out /\ i % 2 = 1
                          => /\ resp.out[i + 1].date = resp.out[i].date
                             /\ resp.out[i + 1].team = resp.out[i].opponent

\* two matches of the pair in the table, each from both sides, and
\* head_to_head with limit 2 returning the two rows of the later match only
C23_Witness ==
    /\ HeadToHeadAnswered
    /\ resp.args[1] # resp.args[2]
    /\ HoldsBothPerspectives(resp.args[1], resp.args[2])
    /\ Cardinality(SharedRows(resp.args[1], resp.args[2])) = 4
    /\ resp.args[3] = 2
    /\ Len(resp.out) = 2
    /\ resp.out[1].date = resp.out[2].date
    /\ resp.out[1].team = resp.out[2].opponent
    /\ \E j \in SharedRows(resp.args[1], resp.args[2]) :
           Strftime(df[j].date) # resp.out[1].date

BarRendered == resp.op = "loadHeadToHead" /\ resp.served

\* the goals of the queried team and of the other side in a record
GoalsOf(record, team) == IF record.team = team THEN record.gf ELSE record.ga
GoalsAgainst(record, team) == IF record.team = team THEN record.ga ELSE record.gf

\* C24: for every record head_to_head(team, opponent) returns and
\* loadHeadToHead renders, the bar marks the record 'win' exactly when the
\* queried team scored more goals than the other side in that match, 'loss'
\* exactly when it scored fewer, 'draw' otherwise, whichever of the two teams
\* the record's team field names.
C24_BarIsQueriedTeamRelative ==
    BarRendered =>
        /\ Len(resp.out.bar) = Len(resp.out.records)
        /\ \A i \in DOMAIN resp.out.records :
               LET for == GoalsOf(resp.out.records[i], resp.args[1])
                   against == GoalsAgainst(resp.out.records[i], resp.args[1])
               IN  resp.out.bar[i] = (IF RLt(against, for) THEN "win"
                                      ELSE IF RLt(for, against) THEN "loss"
                                      ELSE "draw")
====
